---- MODULE Spec2Model ----
(***************************************************************************)
(* Model of tinyrand: word sources, width derivation, limit sampling and   *)
(* range sampling (integers and Duration).                                 *)
(*                                                                         *)
(* The integer types keep their relative widths but are scaled down: u16   *)
(* has Bits bits, u32 twice, u64 and usize four times, u128 eight times    *)
(* as many, so that TLC can enumerate words.  All arithmetic is done       *)
(* modulo the width of the type it is done in.                             *)
(*                                                                         *)
(* Two revisions of the core crate are modelled: "root" is src/src/lib.rs  *)
(* (u64 and u128 only, no assertions) and "tinyrand" is                    *)
(* src/tinyrand/src/lib.rs (all widths, with assertions).                  *)
(***************************************************************************)
EXTENDS Integers, Sequences, FiniteSets, TLC

VARIABLES
    native,       \* which word the source produces natively: "rand64" or "rand128"
    invocations,  \* the source's native invocation counter
    pc,           \* "call" before the call, "loop" while its next_lim is in the
                  \* rejection loop, "idle" after it; "count", "ready", "counted" for a tally
    call,         \* the operation being (or last) executed, with its arguments
    samp,         \* the locals of the running sampler: its type, limit and cutoff
    words,        \* the native words drawn by the latest attempt of the call
    outcome,      \* "none" | "returned" | "zero limit" | "empty range" | "overflow"
    result,       \* integer result of the last returned call
    dresult,      \* Duration result of the last returned Duration call
    task,         \* a sampler pass to be tallied over every word of its type
    tally,        \* the tally of that pass
    prob,         \* the Probability built by the last Probability::new
    flag,         \* the bool returned by the last next_bool
    observed,     \* the counter values a mock's delegate was shown during the call
    completed,    \* per word type, the calls a mock has completed
    mock,         \* a tinyrand-alloc mock: its kind, its delegates, its State and,
                  \* per method, the calls it has completed
    rng,          \* two generator instances: their kind, seed and state
    log           \* per instance, the operations it ran and what they returned

\* the results of Probability::new and next_bool
probVars == <<prob, flag>>

\* the bookkeeping of a session of calls on a mock
mockVars == <<observed, completed, mock>>

\* the generator instances
genVars == <<rng, log>>

vars ==
    <<native, invocations, pc, call, samp, words, outcome, result, dresult, task, tally,
      probVars, mockVars, genVars>>

----------------------------------------------------------------------------
(* Bounds of the model *)

\* bits of the narrowest integer type (u16); the real value is 16
Bits == 1
\* inputs are drawn from the values up to 2 * Near and within Near of the
\* half-width boundary, of the midpoint and of the maximum of their type
Near == 1
\* the invocation counter of a single call counts up to MaxInvocations and
\* stays there ("MaxInvocations or more"); a session of calls on a mock ends
\* before its counter passes MaxInvocations
MaxInvocations == 4
\* operations run on a generator instance
MaxOps == 2

----------------------------------------------------------------------------
(* Integer types *)

Types == {"u16", "u32", "u64", "u128", "usize"}

\* width of a type in bits; usize is that of a 64-bit target
BITS(t) ==
    CASE t = "u16" -> Bits
      [] t = "u32" -> 2 * Bits
      [] t = "u64" -> 4 * Bits
      [] t = "usize" -> 4 * Bits
      [] t = "u128" -> 8 * Bits

\* t::MAX
MAX(t) == 2 ^ BITS(t) - 1

\* `x as t`: truncation to the low-order bits
As(t, x) == x % (2 ^ BITS(t))

\* the doubled-width accumulator type of a multiply-reject sampler
Wide(t) ==
    CASE t = "u16" -> "u32"
      [] t = "u32" -> "u64"
      [] t = "u64" -> "u128"

\* x << n in type t
Shl(t, x, n) == (x * 2 ^ n) % (2 ^ BITS(t))

\* x | y
RECURSIVE BitOr(_, _)
BitOr(x, y) ==
    IF x = 0 THEN y
    ELSE IF y = 0 THEN x
    ELSE (IF x % 2 = 1 \/ y % 2 = 1 THEN 1 ELSE 0) + 2 * BitOr(x \div 2, y \div 2)

\* x ^ y
RECURSIVE BitXor(_, _)
BitXor(x, y) ==
    IF x = 0 THEN y
    ELSE IF y = 0 THEN x
    ELSE (IF x % 2 # y % 2 THEN 1 ELSE 0) + 2 * BitXor(x \div 2, y \div 2)

\* x >> n
Shr(x, n) == x \div (2 ^ n)

\* x.wrapping_add(y) in type t
WrappingAdd(t, x, y) == (x + y) % (2 ^ BITS(t))

\* lim.wrapping_neg() in type t
WrappingNeg(t, lim) == (2 ^ BITS(t) - lim) % (2 ^ BITS(t))

----------------------------------------------------------------------------
(* Input samples *)

Around(c) == (c - Near)..(c + Near)

Edge(t) ==
    { x \in (0..(2 * Near)) \cup Around(2 ^ (BITS(t) \div 2))
              \cup Around(2 ^ (BITS(t) - 1)) \cup Around(MAX(t)) :
        x >= 0 /\ x <= MAX(t) }

----------------------------------------------------------------------------
(* core::time::Duration, as used by duration.rs *)

\* nanoseconds per second, scaled so that it fits the scaled u32
NANOS_PER_SEC == 2 ^ BITS("u32") - 1

\* the value a panicking or still running call leaves in result
NoValue == 0 - 1

ZERO == [secs |-> 0, nanos |-> 0]

Durations ==
    { [secs |-> s, nanos |-> n] :
        s \in (0..Near) \cup {MAX("u64")}, n \in {0, NANOS_PER_SEC - 1} }

\* a < b on Durations
DurLess(a, b) == a.secs < b.secs \/ (a.secs = b.secs /\ a.nanos < b.nanos)

\* Duration::new(secs, nanos): carries whole seconds out of nanos;
\* ok is FALSE where the real one panics on overflow of the seconds
DurationNew(secs, nanos) ==
    LET s == secs + nanos \div NANOS_PER_SEC
    IN  [ok |-> s <= MAX("u64"),
         d |-> [secs |-> As("u64", s), nanos |-> nanos % NANOS_PER_SEC]]

\* a - b on Durations (ok is FALSE where it panics)
DurSub(a, b) ==
    IF a.secs < b.secs THEN [ok |-> FALSE, d |-> ZERO]
    ELSE IF a.nanos >= b.nanos
         THEN [ok |-> TRUE,
               d |-> [secs |-> a.secs - b.secs, nanos |-> a.nanos - b.nanos]]
         ELSE IF a.secs - b.secs >= 1
              THEN [ok |-> TRUE,
                    d |-> [secs |-> a.secs - b.secs - 1,
                           nanos |-> a.nanos + NANOS_PER_SEC - b.nanos]]
              ELSE [ok |-> FALSE, d |-> ZERO]

\* a + b on Durations (ok is FALSE where it panics)
DurAdd(a, b) ==
    LET n == a.nanos + b.nanos
        s == a.secs + b.secs + (IF n >= NANOS_PER_SEC THEN 1 ELSE 0)
    IN  [ok |-> s <= MAX("u64"),
         d |-> [secs |-> As("u64", s),
                nanos |-> IF n >= NANOS_PER_SEC THEN n - NANOS_PER_SEC ELSE n]]

\* Duration::as_nanos, a u128
as_nanos(d) == As("u128", d.secs * NANOS_PER_SEC + d.nanos)

\* a from_nanos that drops the sub-second part
from_nanos_WholeSecs(nanos) ==
    DurationNew(As("u64", nanos \div NANOS_PER_SEC), 0).d

\* duration.rs from_nanos
from_nanos(nanos) ==
    DurationNew(As("u64", nanos \div NANOS_PER_SEC), As("u32", nanos % NANOS_PER_SEC)).d

----------------------------------------------------------------------------
(* f64, as far as Probability and next_bool use it.  A value is a NaN, an  *)
(* infinity or a finite number num / Unit with a sign; Unit is 1 / EPSILON, *)
(* so the finite values are the multiples of f64::EPSILON.                  *)

\* fraction bits of an f64, scaled with the integers (the real value is 52)
FracBits == 2 * Bits

\* significant bits of an f64 (the real value is 53)
Mant == FracBits + 1

\* 1.0 / f64::EPSILON
Unit == 2 ^ FracBits

Fin(neg, num) == [cls |-> "fin", neg |-> neg, num |-> num]

NAN == [cls |-> "nan", neg |-> FALSE, num |-> 0]

INFINITY == [cls |-> "inf", neg |-> FALSE, num |-> 0]

NEG_INFINITY == [cls |-> "inf", neg |-> TRUE, num |-> 0]

\* 0.0, 1.0 and f64::EPSILON
F0 == Fin(FALSE, 0)

F1 == Fin(FALSE, Unit)

EPSILON == Fin(FALSE, 1)

\* the f64 values sampled: the multiples of EPSILON within Near of 0.0, of
\* 0.25, of 0.5 and of 1.0 on either side, both zeros, 2.0 - EPSILON, the
\* infinities and a NaN
Floats ==
    { Fin(FALSE, n) : n \in { m \in Around(0) \cup Around(Unit \div 4) \cup Around(Unit \div 2)
                                    \cup Around(Unit) \cup {2 * Unit - 1} : m >= 0 } }
    \cup { Fin(TRUE, n) : n \in 0..Near }
    \cup {NAN, INFINITY, NEG_INFINITY}

\* the position of a non-NaN value on the number line, in units of EPSILON
\* (an infinity lies beyond every finite value sampled)
Key(a) ==
    LET m == IF a.cls = "inf" THEN 2 ^ (BITS("u64") + FracBits + 1) ELSE a.num
    IN  IF a.neg THEN 0 - m ELSE m

\* a >= b, a <= b and a == b on f64: false where either side is a NaN, and
\* -0.0 equals 0.0
F64Ge(a, b) == a.cls # "nan" /\ b.cls # "nan" /\ Key(a) >= Key(b)

F64Le(a, b) == a.cls # "nan" /\ b.cls # "nan" /\ Key(a) <= Key(b)

F64Eq(a, b) == a.cls # "nan" /\ b.cls # "nan" /\ Key(a) = Key(b)

\* the number of bits of x
RECURSIVE BitLen(_)
BitLen(x) == IF x = 0 THEN 0 ELSE 1 + BitLen(x \div 2)

\* the integer x rounded to Mant significant bits, to nearest and on a tie
\* to the even significand
RoundSig(x) ==
    LET e == BitLen(x) - Mant
    IN  IF e <= 0 THEN x
        ELSE LET q == x \div (2 ^ e)
                 r == x % (2 ^ e)
                 half == 2 ^ (e - 1)
             IN  IF r > half \/ (r = half /\ q % 2 = 1)
                 THEN (q + 1) * 2 ^ e
                 ELSE q * 2 ^ e

\* `x as f64` for an unsigned integer x
AsF64(x) == Fin(FALSE, RoundSig(x) * Unit)

\* a * b on f64 for an integer-valued b: the exact product rounded to Mant
\* significant bits
F64Mul(a, b) ==
    IF a.cls = "nan" \/ b.cls = "nan" THEN NAN
    ELSE IF a.cls = "inf" \/ b.cls = "inf"
         THEN IF (a.cls = "fin" /\ a.num = 0) \/ (b.cls = "fin" /\ b.num = 0) THEN NAN
              ELSE [cls |-> "inf", neg |-> a.neg # b.neg, num |-> 0]
         ELSE Fin(a.neg # b.neg, RoundSig(a.num * (b.num \div Unit)))

\* `a as u64`: saturating, truncating towards zero, 0 for a NaN
F64AsU64(a) ==
    IF a.cls = "nan" THEN 0
    ELSE IF a.neg THEN 0
    ELSE IF a.cls = "inf" THEN MAX("u64")
    ELSE IF a.num \div Unit > MAX("u64") THEN MAX("u64")
    ELSE a.num \div Unit

----------------------------------------------------------------------------
(* Probability and Rand::next_bool *)

\* no Probability
NoProb == [ok |-> FALSE, p |-> NAN]

\* a Probability::new with exclusive bounds
ProbabilityNew_Exclusive(p) ==
    IF F64Le(p, F0) \/ p.cls = "nan" THEN [st |-> "cannot be less than 0", prob |-> NoProb]
    ELSE IF F64Ge(p, F1) THEN [st |-> "cannot be greater than 1", prob |-> NoProb]
    ELSE [st |-> "returned", prob |-> [ok |-> TRUE, p |-> p]]

\* Probability::new(p), with its two assertions in order
ProbabilityNew(p) ==
    IF ~F64Ge(p, F0) THEN [st |-> "cannot be less than 0", prob |-> NoProb]
    ELSE IF ~F64Le(p, F1) THEN [st |-> "cannot be greater than 1", prob |-> NoProb]
    ELSE [st |-> "returned", prob |-> [ok |-> TRUE, p |-> p]]

\* Probability::new_unchecked(p)
ProbabilityNewUnchecked(p) == [st |-> "returned", prob |-> [ok |-> TRUE, p |-> p]]

\* f64::from(Probability)
FromProbability(pr) == pr.p

\* a cutoff taken from the exact product of p and 2^64 - 1
BoolCutoff_Exact(p) ==
    IF p.cls = "nan" \/ p.neg THEN 0
    ELSE IF p.cls = "inf" THEN MAX("u64")
    ELSE IF (p.num * MAX("u64")) \div Unit > MAX("u64") THEN MAX("u64")
    ELSE (p.num * MAX("u64")) \div Unit

\* the cutoff of next_bool: (p.0 * u64::MAX as f64) as u64
BoolCutoff(p) == F64AsU64(F64Mul(p, AsF64(MAX("u64"))))

\* a next_bool that does not step down from u64::MAX
next_bool_NoClamp(p, x) == x < BoolCutoff(p)

\* Rand::next_bool(p) over the drawn u64 word x
next_bool(p, x) ==
    LET cutoff == BoolCutoff(p)
        next == IF x = MAX("u64") THEN MAX("u64") - 1 ELSE x
    IN  next < cutoff

----------------------------------------------------------------------------
(* Width derivation *)

\* the type of the source's native word
NativeType(n) == IF n = "rand64" THEN "u64" ELSE "u128"

\* every word taken for a single native draw
Draws_AlwaysOne(n, t) == 1

\* native draws consumed by one word of type t
Draws(n, t) == IF n = "rand64" /\ t = "u128" THEN 2 ELSE 1

\* a splice that puts the first draw in the low-order half
Rand64Word_LowFirst(t, a, b) ==
    CASE t = "u16" -> As("u16", a)
      [] t = "u32" -> As("u32", a)
      [] t = "u64" -> a
      [] t = "usize" -> As("usize", a)
      [] t = "u128" -> BitOr(Shl("u128", b, BITS("u64")), a)

\* rand64.rs: next_u16, next_u32, next_u128 over native draws a (then b)
Rand64Word(t, a, b) ==
    CASE t = "u16" -> As("u16", a)
      [] t = "u32" -> As("u32", a)
      [] t = "u64" -> a
      [] t = "usize" -> As("usize", a)
      [] t = "u128" -> BitOr(Shl("u128", a, BITS("u64")), b)

\* a narrowing that keeps the high-order bits
Rand128Word_HighBits(t, a) == a \div (2 ^ (BITS("u128") - BITS(t)))

\* rand128.rs: next_u16, next_u32, next_u64 over the native draw a
Rand128Word(t, a) ==
    CASE t = "u16" -> As("u16", a)
      [] t = "u32" -> As("u32", a)
      [] t = "u64" -> As("u64", a)
      [] t = "usize" -> As("usize", As("u64", a))
      [] t = "u128" -> a

\* the word of type t that a source of kind n derives from its draws
Word(n, t, a, b) == IF n = "rand64" THEN Rand64Word(t, a, b) ELSE Rand128Word(t, a)

----------------------------------------------------------------------------
(* Limit sampling *)

\* a pass that returns the low half of the product
Attempt_LowHalf(t, lim, x) ==
    LET full == (x * lim) % (2 ^ BITS(Wide(t)))
    IN  [full |-> full, low |-> As(t, full), val |-> As(t, full)]

\* a pass that multiplies in the narrow type, before widening
Attempt_NarrowProduct(t, lim, x) ==
    LET full == As(t, x * lim)
    IN  [full |-> full, low |-> As(t, full), val |-> As(t, full \div (2 ^ BITS(t)))]

\* one pass of the multiply-reject body over the drawn word x:
\* full = x * lim in the accumulator, low = full as t, and (full >> W) as t
Attempt(t, lim, x) ==
    LET full == (x * lim) % (2 ^ BITS(Wide(t)))
    IN  [full |-> full,
         low |-> As(t, full),
         val |-> As(t, full \div (2 ^ BITS(t)))]

\* a threshold taken from MAX instead of from the negated limit
Threshold_FromMax(t, lim) == MAX(t) % lim

\* lim.wrapping_neg() % lim
Threshold(t, lim) == WrappingNeg(t, lim) % lim

\* a first pass that also rejects a low part equal to the threshold
NextLimFirst_RejectEqual(t, lim, x) ==
    LET at == Attempt(t, lim, x)
        cutoff == Threshold(t, lim)
    IN  IF at.low <= cutoff
        THEN [st |-> "loop", val |-> 0, t |-> t, lim |-> lim, cutoff |-> cutoff]
        ELSE [st |-> "ret", val |-> at.val, t |-> t, lim |-> lim, cutoff |-> cutoff]

\* a first pass that returns the high half of every product
NextLimFirst_NoReject(t, lim, x) ==
    [st |-> "ret", val |-> Attempt(t, lim, x).val, t |-> t, lim |-> lim, cutoff |-> 0]

\* RandLim<u16|u32|u64>::next_lim from its first draw x up to the loop
NextLimFirst(t, lim, x) ==
    LET at == Attempt(t, lim, x)
    IN  IF at.low < lim
        THEN LET cutoff == Threshold(t, lim)
             IN  IF at.low < cutoff
                 THEN [st |-> "loop", val |-> 0, t |-> t, lim |-> lim, cutoff |-> cutoff]
                 ELSE [st |-> "ret", val |-> at.val, t |-> t, lim |-> lim, cutoff |-> cutoff]
        ELSE [st |-> "ret", val |-> at.val, t |-> t, lim |-> lim, cutoff |-> 0]

\* a later pass that tests the rejected low part again, not the new one
NextLimAgain_NoRedraw(t, lim, cutoff, x) ==
    [st |-> "loop", val |-> 0, t |-> t, lim |-> lim, cutoff |-> cutoff]

\* one more pass of the `while low < cutoff` loop over the drawn word x
NextLimAgain(t, lim, cutoff, x) ==
    LET at == Attempt(t, lim, x)
    IN  IF at.low < cutoff
        THEN [st |-> "loop", val |-> 0, t |-> t, lim |-> lim, cutoff |-> cutoff]
        ELSE [st |-> "ret", val |-> at.val, t |-> t, lim |-> lim, cutoff |-> cutoff]

\* a cutoff whose overhang is taken from MAX
cutoff_u128_FromMax(lim) == MAX("u128") - (MAX("u128") % lim)

\* a cutoff whose overhang is taken from u128::MAX - lim
cutoff_u128_NoPlusOne(lim) ==
    LET overhang == As("u128", MAX("u128") - lim) % lim
    IN  MAX("u128") - overhang

\* cutoff_u128
cutoff_u128(lim) ==
    LET overhang == As("u128", MAX("u128") - lim + 1) % lim
    IN  MAX("u128") - overhang

\* whether `u128::MAX - lim + 1` leaves the range of u128 on the way
CutoffOverflows(lim) == MAX("u128") - lim < 0 \/ MAX("u128") - lim + 1 > MAX("u128")

\* a u128 pass that also rejects the cutoff itself
NextLimU128Pass_StrictCutoff(lim, cutoff, rand) ==
    IF rand < cutoff
    THEN [st |-> "ret", val |-> rand % lim, t |-> "u128", lim |-> lim, cutoff |-> cutoff]
    ELSE [st |-> "loop", val |-> 0, t |-> "u128", lim |-> lim, cutoff |-> cutoff]

\* one pass of the u128 `loop` over the drawn word rand
NextLimU128Pass(lim, cutoff, rand) ==
    IF rand <= cutoff
    THEN [st |-> "ret", val |-> rand % lim, t |-> "u128", lim |-> lim, cutoff |-> cutoff]
    ELSE [st |-> "loop", val |-> 0, t |-> "u128", lim |-> lim, cutoff |-> cutoff]

\* the outcome of a failed assertion
Panic(msg) == [st |-> msg, val |-> 0, t |-> "u64", lim |-> 0, cutoff |-> 0]

\* whether revision rev asserts its arguments
Asserts(rev) == rev = "tinyrand"

\* a next_lim whose u128 sampler runs its own loop whatever the limit
next_lim_NoDelegation(rev, n, t, lim, a, b) ==
    IF Asserts(rev) /\ lim = 0 THEN Panic("zero limit")
    ELSE IF t \in {"u16", "u32", "u64"} THEN NextLimFirst(t, lim, Word(n, t, a, b))
    ELSE IF t = "usize" THEN NextLimFirst("u64", As("u64", lim), Word(n, "u64", a, b))
    ELSE NextLimU128Pass(lim, cutoff_u128(lim), Word(n, "u128", a, b))

\* RandLim<t>::next_lim(lim) of revision rev on a source of kind n, up to and
\* including its first draw (a, then b where a u128 word is spliced)
next_lim(rev, n, t, lim, a, b) ==
    IF Asserts(rev) /\ lim = 0 THEN Panic("zero limit")
    ELSE IF t \in {"u16", "u32", "u64"} THEN NextLimFirst(t, lim, Word(n, t, a, b))
    ELSE IF t = "usize" THEN NextLimFirst("u64", As("u64", lim), Word(n, "u64", a, b))
    ELSE IF lim <= MAX("u64")
         THEN NextLimFirst("u64", As("u64", lim), Word(n, "u64", a, b))
         ELSE NextLimU128Pass(lim, cutoff_u128(lim), Word(n, "u128", a, b))

\* native draws consumed by the first pass of next_lim
FirstDraws(n, r) == IF r.st \in {"ret", "loop"} THEN Draws(n, r.t) ELSE 0

----------------------------------------------------------------------------
(* Range sampling *)

Revs == {"root", "tinyrand"}

\* the integer types for which revision rev implements RandLim and RandRange
HasType(rev, t) == rev = "tinyrand" \/ t \in {"u64", "u128"}

\* an emptiness test that sees only inverted ranges
IsEmpty_OnlyInverted(lo, hi) == lo > hi

\* an emptiness test that sees only start = end
IsEmpty_EqualOnly(lo, hi) == lo = hi

\* Range::is_empty
IsEmpty(lo, hi) == ~(lo < hi)

\* the early return of the root revision's next_range
ReturnStart == [st |-> "start", val |-> 0, t |-> "u64", lim |-> 0, cutoff |-> 0]

\* a next_range that samples below the end of the range, not below its span
next_range_SpanIsEnd(rev, n, t, lo, hi, a, b) ==
    IF ~(lo < hi)
    THEN IF Asserts(rev) THEN Panic("empty range") ELSE ReturnStart
    ELSE next_lim(rev, n, t, hi, a, b)

\* a next_range without the test for an empty range
next_range_NoEmptyCheck(rev, n, t, lo, hi, a, b) ==
    next_lim(rev, n, t, As(t, hi - lo), a, b)

\* RandRange<t>::next_range(lo..hi) of revision rev, up to and including the
\* first draw of the next_lim it calls
next_range(rev, n, t, lo, hi, a, b) ==
    IF IsEmpty(lo, hi)
    THEN IF Asserts(rev) THEN Panic("empty range") ELSE ReturnStart
    ELSE LET span == As(t, hi - lo)
         IN  next_lim(rev, n, t, span, a, b)

\* a Duration next_range that takes only start = end for empty
next_range_duration_EqualOnly(n, lo, hi, a, b) ==
    IF lo = hi THEN Panic("empty range")
    ELSE next_lim("tinyrand", n, "u128", as_nanos(DurSub(hi, lo).d), a, b)

\* RandRange<Duration>::next_range(lo..hi), up to and including the first
\* draw of the next_lim it calls
next_range_duration(n, lo, hi, a, b) ==
    IF ~DurLess(lo, hi) THEN Panic("empty range")
    ELSE LET span == as_nanos(DurSub(hi, lo).d)
         IN  next_lim("tinyrand", n, "u128", span, a, b)

----------------------------------------------------------------------------
(* The state machine: a source and one call on it.  The caller's choice   *)
(* of operation and arguments is made in Init; the words the source       *)
(* yields are chosen draw by draw.                                         *)

NoCall ==
    [op |-> "none", rev |-> "tinyrand", t |-> "u64", lo |-> 0, hi |-> 0,
     dlo |-> ZERO, dhi |-> ZERO, p |-> F0]

NoSamp == [t |-> "u64", lim |-> 0, cutoff |-> 0]

NoTask == [t |-> "u64", lim |-> 1, first |-> TRUE]

NoTally == [hits |-> <<>>, rejected |-> 0 - 1]

\* no tinyrand-alloc mock
NoMock ==
    [kind |-> "none", next_bool_delegate |-> "default", next_lim_u128_delegate |-> "default",
     next_bool_invocations |-> 0, next_lim_u128_invocations |-> 0,
     done |-> <<>>]

\* no Probability has been built and no bool returned
ProbIdle == prob = NoProb /\ flag = FALSE

\* no mock session is under way
MockIdle == observed = <<>> /\ completed = <<>> /\ mock = NoMock

\* no generator has been seeded
GenIdle == rng = <<>> /\ log = <<>>

\* next_u16, next_u32, next_u64, next_u128, next_usize
WordCalls == { [NoCall EXCEPT !.op = "word", !.t = t] : t \in Types }

\* next_lim(hi)
LimCalls ==
    UNION { { [NoCall EXCEPT !.op = "next_lim", !.rev = rev, !.t = t, !.hi = lim] :
                lim \in Edge(t) } :
            rev \in Revs, t \in Types }

\* next_range(lo..hi) over integers
RangeCalls ==
    UNION { { [NoCall EXCEPT !.op = "next_range", !.rev = rev, !.t = t,
                             !.lo = lo, !.hi = hi] :
                lo \in Edge(t), hi \in Edge(t) } :
            rev \in Revs, t \in Types }

\* next_range(dlo..dhi) over Durations
DurationCalls ==
    { [NoCall EXCEPT !.op = "next_range_duration", !.t = "u128", !.dlo = lo, !.dhi = hi] :
        lo \in Durations, hi \in Durations }

\* every Duration over the sampled seconds
AllDurations ==
    { [secs |-> s, nanos |-> n] : s \in Edge("u64"), n \in 0..(NANOS_PER_SEC - 1) }

\* from_nanos(d.as_nanos())
FromNanosCalls == { [NoCall EXCEPT !.op = "from_nanos", !.dlo = d] : d \in AllDurations }

\* Probability::new(p) and Probability::new_unchecked(p)
ProbabilityCalls ==
    { [NoCall EXCEPT !.op = op, !.p = p] : op \in {"new", "new_unchecked"}, p \in Floats }

\* next_bool(p)
BoolCalls == { [NoCall EXCEPT !.op = "next_bool", !.p = p] : p \in Floats }

\* the limits cutoff_u128 is applied to: 1, 2, 3 and the sampled nonzero u128
CutoffLimits == (1..(2 * Near + 1)) \cup (Edge("u128") \ {0})

\* cutoff_u128(lim)
CutoffCalls == { [NoCall EXCEPT !.op = "cutoff_u128", !.t = "u128", !.hi = lim] :
                   lim \in CutoffLimits }

Calls ==
    { c \in WordCalls \cup LimCalls \cup RangeCalls \cup DurationCalls
              \cup FromNanosCalls \cup ProbabilityCalls \cup BoolCalls
              \cup CutoffCalls :
        HasType(c.rev, c.t) }

Init ==
    /\ native \in {"rand64", "rand128"}
    /\ invocations = 0
    /\ pc = "call"
    /\ call \in Calls
    /\ samp = NoSamp
    /\ words = <<>>
    /\ outcome = "none"
    /\ result = NoValue
    /\ dresult = ZERO
    /\ task = NoTask
    /\ tally = NoTally
    /\ ProbIdle /\ MockIdle /\ GenIdle

\* the invocation counter at n draws, as far as it is counted
Counted(n) == IF n > MaxInvocations THEN MaxInvocations ELSE n

\* the words a source may produce
NativeWords == Edge(NativeType(native))

\* the sampler has returned val to call c: the call adds its offset and returns
Done(c, val) ==
    /\ pc' = "idle"
    /\ IF c.op = "next_range_duration"
       THEN LET r == DurAdd(c.dlo, from_nanos(val))
            IN  /\ outcome' = IF r.ok THEN "returned" ELSE "overflow"
                /\ dresult' = r.d
                /\ result' = NoValue
       ELSE IF c.op = "next_range"
       THEN /\ outcome' = IF c.lo + val <= MAX(c.t) THEN "returned" ELSE "overflow"
            /\ result' = As(c.t, c.lo + val)
            /\ dresult' = ZERO
       ELSE /\ outcome' = "returned"
            /\ result' = As(c.t, val)
            /\ dresult' = ZERO

\* the state after a pass r of call c that drew a (and b)
After(c, r, a, b) ==
    LET k == FirstDraws(native, r)
    IN  /\ (k < 2 => b = 0)
        /\ (k < 1 => a = 0)
        /\ invocations' = Counted(invocations + k)
        /\ words' = SubSeq(<<a, b>>, 1, k)
        /\ samp' = [t |-> r.t, lim |-> r.lim, cutoff |-> r.cutoff]
        /\ UNCHANGED <<native, call, task, tally, probVars, mockVars, genVars>>
        /\ CASE r.st = "ret" -> Done(c, r.val)
             [] r.st = "loop" ->
                    /\ pc' = "loop"
                    /\ outcome' = "none"
                    /\ result' = NoValue
                    /\ dresult' = ZERO
             [] r.st = "start" ->
                    /\ pc' = "idle"
                    /\ outcome' = "returned"
                    /\ result' = c.lo
                    /\ dresult' = ZERO
             [] OTHER ->
                    /\ pc' = "idle"
                    /\ outcome' = r.st
                    /\ result' = NoValue
                    /\ dresult' = ZERO

\* next_u16, next_u32, next_u64, next_u128, next_usize
NextWord ==
    /\ pc = "call"
    /\ call.op = "word"
    /\ \E a \in NativeWords, b \in NativeWords :
        LET k == Draws(native, call.t)
        IN  /\ (k < 2 => b = 0)
            /\ invocations' = Counted(invocations + k)
            /\ words' = SubSeq(<<a, b>>, 1, k)
            /\ result' = Word(native, call.t, a, b)
            /\ outcome' = "returned"
            /\ pc' = "idle"
            /\ UNCHANGED <<native, call, samp, dresult, task, tally,
                           probVars, mockVars, genVars>>

\* next_lim(lim), through its first draw
NextLim ==
    /\ pc = "call"
    /\ call.op = "next_lim"
    /\ \E a \in NativeWords, b \in NativeWords :
        After(call, next_lim(call.rev, native, call.t, call.hi, a, b), a, b)

\* next_range(lo..hi) over integers, through the first draw of its next_lim
NextRange ==
    /\ pc = "call"
    /\ call.op = "next_range"
    /\ \E a \in NativeWords, b \in NativeWords :
        After(call, next_range(call.rev, native, call.t, call.lo, call.hi, a, b), a, b)

\* next_range(lo..hi) over Durations, through the first draw of its next_lim
NextRangeDuration ==
    /\ pc = "call"
    /\ call.op = "next_range_duration"
    /\ \E a \in NativeWords, b \in NativeWords :
        After(call, next_range_duration(native, call.dlo, call.dhi, a, b), a, b)

\* one more pass of the rejection loop of the running next_lim
Retry ==
    /\ pc = "loop"
    /\ \E a \in NativeWords, b \in NativeWords :
        After(call,
              IF samp.t = "u128"
              THEN NextLimU128Pass(samp.lim, samp.cutoff, Word(native, "u128", a, b))
              ELSE NextLimAgain(samp.t, samp.lim, samp.cutoff, Word(native, samp.t, a, b)),
              a, b)

\* from_nanos applied to the nanoseconds of the Duration call.dlo
FromNanos ==
    /\ pc = "call"
    /\ call.op = "from_nanos"
    /\ result' = as_nanos(call.dlo)
    /\ dresult' = from_nanos(as_nanos(call.dlo))
    /\ outcome' = "returned"
    /\ pc' = "idle"
    /\ UNCHANGED <<native, invocations, call, samp, words, task, tally,
                   probVars, mockVars, genVars>>

\* Probability::new(p) or Probability::new_unchecked(p)
NewProbability ==
    /\ pc = "call"
    /\ call.op \in {"new", "new_unchecked"}
    /\ LET r == IF call.op = "new" THEN ProbabilityNew(call.p)
                ELSE ProbabilityNewUnchecked(call.p)
       IN  /\ prob' = r.prob
           /\ outcome' = r.st
    /\ pc' = "idle"
    /\ UNCHANGED <<native, invocations, call, samp, words, result, dresult, task, tally,
                   flag, mockVars, genVars>>

\* next_bool(p): one draw of a u64 word
NextBool ==
    /\ pc = "call"
    /\ call.op = "next_bool"
    /\ \E a \in NativeWords :
        /\ invocations' = Counted(invocations + 1)
        /\ words' = <<a>>
        /\ flag' = next_bool(call.p, Word(native, "u64", a, 0))
    /\ outcome' = "returned"
    /\ pc' = "idle"
    /\ UNCHANGED <<native, call, samp, result, dresult, task, tally,
                   prob, mockVars, genVars>>

\* cutoff_u128(lim), which fails where its arithmetic overflows
CutoffU128 ==
    /\ pc = "call"
    /\ call.op = "cutoff_u128"
    /\ IF CutoffOverflows(call.hi)
       THEN outcome' = "overflow" /\ result' = NoValue
       ELSE outcome' = "returned" /\ result' = cutoff_u128(call.hi)
    /\ pc' = "idle"
    /\ UNCHANGED <<native, invocations, call, samp, words, dresult, task, tally,
                   probVars, mockVars, genVars>>

Next ==
    \/ NextWord
    \/ NextLim
    \/ NextRange
    \/ NextRangeDuration
    \/ Retry
    \/ FromNanos
    \/ NewProbability
    \/ NextBool
    \/ CutoffU128

Spec == Init /\ [][Next]_vars

----------------------------------------------------------------------------
(* next_lim on a fair source: one that, while the sampler is in its       *)
(* rejection loop, eventually yields a word that the sampler accepts       *)

InitFair == Init /\ call.op = "next_lim"

\* a pass of the rejection loop that draws an accepted word
Accept == Retry /\ pc' = "idle"

NextFair ==
    \/ NextLim
    \/ Retry

\* the call is made, and the source is fair
Fairness == WF_vars(NextLim) /\ WF_vars(Accept)

SpecFair == InitFair /\ [][NextFair]_vars /\ Fairness

----------------------------------------------------------------------------
(* next_lim on a source whose delegate is fixed(0), the default word       *)
(* delegate of AdvMock and of tinyrand-alloc's Mock: every word is 0       *)

\* fixed(val): the word the delegate returns, whatever the state shown
fixed(val) == val

\* every word drawn in this step came from fixed(0)
FixedZero == \A i \in 1..Len(words') : words'[i] = fixed(0)

InitZero == Init /\ call.op = "next_lim"

NextZero ==
    \/ NextLim /\ FixedZero
    \/ Retry /\ FixedZero

SpecZero == InitZero /\ [][NextZero]_vars

----------------------------------------------------------------------------
(* The seedable generators.  Their 64-bit constants are cut to the width   *)
(* of the scaled u64, their shift distances are taken modulo that width,   *)
(* and a shift by half the width stays a shift by half the width.          *)

Generators == {"Counter", "Wyrand", "Xorshift", "SplitMix"}

\* a 64-bit constant, given by its low-order 16 bits, in the scaled u64
Const(low16) == As("u64", low16)

\* a shift distance in the scaled u64
Dist(n) == n % BITS("u64")

\* a counter that stops at u64::MAX
CounterNext_Saturating(s) ==
    [s |-> IF s = MAX("u64") THEN s ELSE s + 1, out |-> s]

\* Counter::next_u64 in state s: the new state and the word returned
CounterNext(s) == [s |-> WrappingAdd("u64", s, 1), out |-> s]

\* the low-order bits of 0xA076_1D64_78BD_642F and 0xE703_7ED1_A0B4_28DB
WY_ADD == 25647

WY_XOR == 10459

\* Wyrand::next_u64
WyrandNext(s) ==
    LET s1 == WrappingAdd("u64", s, Const(WY_ADD))
        r == As("u128", s1 * BitXor(s1, Const(WY_XOR)))
    IN  [s |-> s1, out |-> BitXor(As("u64", r), As("u64", Shr(r, BITS("u64"))))]

\* Xorshift::next_u64
XorshiftNext(s) ==
    LET s1 == BitXor(s, Shl("u64", s, Dist(13)))
        s2 == BitXor(s1, Shr(s1, Dist(7)))
    IN  [s |-> s2, out |-> BitXor(s2, Shl("u64", s2, Dist(17)))]

\* the low-order bits of 0xff51_afd7_ed55_8ccd and 0xc4ce_b9fe_1a85_ec53
SM_MUL1 == 36045

SM_MUL2 == 60499

\* SplitMix::next_u64
SplitMixNext(s) ==
    LET half == BITS("u64") \div 2
        m1 == As("u128", As("u64", BitXor(s, Shr(s, half))) * Const(SM_MUL1))
        m2 == As("u128", As("u64", BitXor(m1, Shr(m1, half))) * Const(SM_MUL2))
    IN  [s |-> As("u64", m1), out |-> As("u64", m2)]

\* next_u64 of a generator whose state all its instances share
GenNext_Shared(kind, s) ==
    CASE kind = "Counter" -> CounterNext(rng[1].s)
      [] kind = "Wyrand" -> WyrandNext(rng[1].s)
      [] kind = "Xorshift" -> XorshiftNext(rng[1].s)
      [] kind = "SplitMix" -> SplitMixNext(rng[1].s)

\* next_u64 of a generator of the given kind in state s
GenNext(kind, s) ==
    CASE kind = "Counter" -> CounterNext(s)
      [] kind = "Wyrand" -> WyrandNext(s)
      [] kind = "Xorshift" -> XorshiftNext(s)
      [] kind = "SplitMix" -> SplitMixNext(s)

\* a seed that takes every seed as the state
Seed_NoZeroCheck(kind, seed) == seed

\* Seeded::seed(seed): the state of the new instance
Seed(kind, seed) ==
    IF kind \in {"Xorshift", "SplitMix"} /\ seed = 0 THEN Shr(MAX("u64"), 1) ELSE seed

\* a default that starts every generator from 0
Default_Zero(kind) == 0

\* Default::default(): the state of the new instance
Default(kind) == IF kind \in {"Xorshift", "SplitMix"} THEN 1 ELSE 0

\* next_u16, next_u32, next_u64, next_u128 or next_usize of a generator in
\* state s: the new state, the word returned and the native draws made
GenWord(kind, s, t) ==
    LET d1 == GenNext(kind, s)
        d2 == GenNext(kind, d1.s)
    IN  IF Draws("rand64", t) = 2
        THEN [s |-> d2.s, out |-> Word("rand64", t, d1.out, d2.out), draws |-> 2]
        ELSE [s |-> d1.s, out |-> Word("rand64", t, d1.out, 0), draws |-> 1]

\* the tests' construct(seed) of Xorshift and SplitMix, which bypasses the
\* zero-seed check: the state of the new instance
Construct(seed) == seed

\* the ways to make an instance: seed(s) for the sampled seeds, default(),
\* or the tests' construct(0)
Makes ==
    { [how |-> "seed", seed |-> sd] : sd \in Edge("u64") }
    \cup { [how |-> "default", seed |-> 0] }
    \cup { [how |-> "construct", seed |-> 0] }

\* the generators whose tests have a construct
HasConstruct(kind) == kind \in {"Xorshift", "SplitMix"}

\* a new instance
Instance(kind, mk) ==
    [kind |-> kind, how |-> mk.how, seed |-> mk.seed, draws |-> 0,
     s |-> CASE mk.how = "seed" -> Seed(kind, mk.seed)
            [] mk.how = "construct" -> Construct(mk.seed)
            [] OTHER -> Default(kind)]

\* two instances of one kind of generator, each made in its own way
InitGen ==
    /\ native = "rand64"
    /\ invocations = 0
    /\ pc = "idle"
    /\ call = NoCall
    /\ samp = NoSamp
    /\ words = <<>>
    /\ outcome = "none"
    /\ result = NoValue
    /\ dresult = ZERO
    /\ task = NoTask
    /\ tally = NoTally
    /\ \E kind \in Generators, mk1 \in Makes, mk2 \in Makes :
          /\ ("construct" \in {mk1.how, mk2.how}) => HasConstruct(kind)
          /\ rng = <<Instance(kind, mk1), Instance(kind, mk2)>>
    /\ log = << <<>>, <<>> >>
    /\ ProbIdle /\ MockIdle

\* instance i runs the word operation t
Run(i, t) ==
    LET r == GenWord(rng[i].kind, rng[i].s, t)
    IN  /\ rng' = [rng EXCEPT ![i].s = r.s, ![i].draws = @ + r.draws]
        /\ log' = [log EXCEPT ![i] = Append(@, [op |-> t, k |-> rng[i].draws,
                                                  pre |-> rng[i].s, out |-> r.out,
                                                  post |-> r.s])]
        /\ UNCHANGED <<native, invocations, pc, call, samp, words, outcome, result,
                       dresult, task, tally, probVars, mockVars>>

\* the first instance runs an operation of the caller's choice
GenDraw ==
    /\ rng # <<>>
    /\ Len(log[1]) < MaxOps
    /\ \E t \in Types : Run(1, t)

\* the second instance runs the operation the first ran at the same position
TwinDraw ==
    /\ rng # <<>>
    /\ Len(log[2]) < Len(log[1])
    /\ Run(2, log[1][Len(log[2]) + 1].op)

NextGen ==
    \/ GenDraw
    \/ TwinDraw

SpecGen == InitGen /\ [][NextGen]_vars

----------------------------------------------------------------------------
(* A session of word calls on a mock: TestMock and tinyrand's Mock count   *)
(* next_u64 invocations ("rand64"), tinyrand-alloc's Mock counts next_u128 *)
(* invocations ("rand128").  A native invocation runs the delegate, which  *)
(* is shown the mock's state, and increments the counter afterwards.       *)

InitMock ==
    /\ native \in {"rand64", "rand128"}
    /\ invocations = 0
    /\ pc = "idle"
    /\ call = NoCall
    /\ samp = NoSamp
    /\ words = <<>>
    /\ outcome = "none"
    /\ result = NoValue
    /\ dresult = ZERO
    /\ task = NoTask
    /\ tally = NoTally
    /\ observed = <<>>
    /\ completed = [t \in Types |-> 0]
    /\ mock = NoMock
    /\ ProbIdle /\ GenIdle

\* a delegate that is shown the counter already incremented
DelegateSees_Incremented(inv) == inv + 1

\* what `delegate(&self.state)` shows the delegate of the invocation counter
DelegateSees(inv) == inv

\* next_u16, next_u32, next_u64, next_u128 or next_usize is called
MockCall ==
    /\ pc = "idle"
    /\ \E t \in Types :
        /\ invocations + Draws(native, t) <= MaxInvocations
        /\ call' = [NoCall EXCEPT !.op = "word", !.t = t]
    /\ pc' = "delegate"
    /\ words' = <<>>
    /\ observed' = <<>>
    /\ outcome' = "none"
    /\ result' = NoValue
    /\ UNCHANGED <<native, invocations, samp, dresult, task, tally, completed, mock,
                   probVars, genVars>>

\* the native method runs the delegate, which returns a word
MockDelegate ==
    /\ pc = "delegate"
    /\ \E w \in NativeWords : words' = Append(words, w)
    /\ observed' = Append(observed, DelegateSees(invocations))
    /\ pc' = "increment"
    /\ UNCHANGED <<native, invocations, call, samp, outcome, result, dresult, task, tally,
                   completed, mock, probVars, genVars>>

\* the native method increments the counter and returns; the word call
\* returns once it has all its draws
MockIncrement ==
    /\ pc = "increment"
    /\ invocations' = invocations + 1
    /\ IF Len(words) < Draws(native, call.t)
       THEN /\ pc' = "delegate"
            /\ UNCHANGED <<outcome, result, completed>>
       ELSE /\ pc' = "idle"
            /\ outcome' = "returned"
            /\ result' = Word(native, call.t, words[1],
                              IF Len(words) > 1 THEN words[2] ELSE 0)
            /\ completed' = [completed EXCEPT ![call.t] = @ + 1]
    /\ UNCHANGED <<native, call, samp, words, dresult, task, tally, observed, mock,
                   probVars, genVars>>

NextMock ==
    \/ MockCall
    \/ MockDelegate
    \/ MockIncrement

SpecMock == InitMock /\ [][NextMock]_vars

----------------------------------------------------------------------------
(* A session of calls on a mock of tinyrand-alloc: Mock, whose word        *)
(* delegate yields u128 words, or AdvMock, whose word delegate yields u64  *)
(* words.  Its State counts the native draws (in invocations), the         *)
(* next_bool calls and the next_lim_u128 calls.  The next_bool delegate is *)
(* the default one or |_, _| true; the next_lim_u128 delegate is the       *)
(* default one or |_, lim| lim / 2.                                        *)

MockKinds == {"Mock", "AdvMock"}

\* the kind of word the mock's word delegate yields
NativeOf(kind) == IF kind = "Mock" THEN "rand128" ELSE "rand64"

\* the methods whose completed calls are counted
Methods == {"next_u64", "next_bool", "next_lim_u128"}

\* State::next_bool_invocations()
next_bool_invocations(kind, st) == st.next_bool_invocations

\* State::next_lim_u128_invocations()
next_lim_u128_invocations(kind, st) ==
    IF kind = "AdvMock" THEN st.next_bool_invocations ELSE st.next_lim_u128_invocations

\* the type of the Rand method next_lim_<type> that a limited draw at type
\* t arrives at: next_lim_usize goes to next_lim_u64, the generic
\* next_lim(lim: t) to next_lim_<t>
RouteType(t) == IF t = "usize" THEN "u64" ELSE t

\* a mock that leaves next_lim_u16, next_lim_u32 and next_lim_u64 to Rand
Overrides_OnlyU128(t) == t = "u128"

\* whether the mock implements next_lim_<t> itself, through next_lim_u128
Overrides(t) == t \in {"u16", "u32", "u64", "u128"}

\* u128::from(lim)
Widen(lim) == As("u128", lim)

\* `r as t`
Narrow(t, r) == As(t, r)

\* Rand::next_lim_u128(lim) on the surrogate, up to and including its first
\* draw
RandNextLimU128(n, lim, a, b) == next_lim("tinyrand", n, "u128", lim, a, b)

\* Rand::next_bool(p) on the surrogate, over its draw a
RandNextBool(n, p, a) == next_bool(p, Word(n, "u64", a, 0))

\* the limits of the limited draws: 1, 2, 3 and the maximum of the type
LimitsOf(t) == { l \in {1, 2, 3, MAX(t)} : l <= MAX(t) }

\* the probabilities of the next_bool calls: 0.0, 0.5 and 1.0
Probabilities == {F0, Fin(FALSE, Unit \div 2), F1}

\* calls completed in the session
Total == mock.done["next_u64"] + mock.done["next_bool"] + mock.done["next_lim_u128"]

InitAlloc ==
    /\ \E kind \in MockKinds, bd \in {"default", "always"}, ld \in {"default", "half"} :
          /\ mock = [kind |-> kind, next_bool_delegate |-> bd, next_lim_u128_delegate |-> ld,
                     next_bool_invocations |-> 0, next_lim_u128_invocations |-> 0,
                     done |-> [m \in Methods |-> 0]]
          /\ native = NativeOf(kind)
    /\ invocations = 0
    /\ pc = "idle"
    /\ call = NoCall
    /\ samp = NoSamp
    /\ words = <<>>
    /\ outcome = "none"
    /\ result = NoValue
    /\ dresult = ZERO
    /\ task = NoTask
    /\ tally = NoTally
    /\ observed = <<>>
    /\ completed = <<>>
    /\ ProbIdle /\ GenIdle

\* the words a second draw may produce: the surrogate of Mock splices no
\* word out of two draws
SecondWords == IF native = "rand64" THEN NativeWords ELSE {0}

\* next_u64(): the word delegate is run and the native counter incremented
AllocNextU64 ==
    /\ pc = "idle"
    /\ Total < MaxOps
    /\ \E a \in NativeWords :
        /\ words' = <<a>>
        /\ result' = Word(native, "u64", a, 0)
    /\ invocations' = Counted(invocations + 1)
    /\ call' = [NoCall EXCEPT !.op = "next_u64"]
    /\ outcome' = "returned"
    /\ mock' = [mock EXCEPT !.done["next_u64"] = @ + 1]
    /\ UNCHANGED <<native, pc, samp, dresult, task, tally, observed, completed,
                   probVars, genVars>>

\* next_bool(p): the next_bool delegate is run on the surrogate, then
\* next_bool_invocations is incremented
AllocNextBool ==
    /\ pc = "idle"
    /\ Total < MaxOps
    /\ \E p \in Probabilities :
        /\ call' = [NoCall EXCEPT !.op = "next_bool", !.p = p]
        /\ IF mock.next_bool_delegate = "default"
           THEN \E a \in NativeWords :
                   /\ words' = <<a>>
                   /\ flag' = RandNextBool(native, p, a)
                   /\ invocations' = Counted(invocations + 1)
           ELSE /\ words' = <<>>
                /\ flag' = TRUE
                /\ UNCHANGED invocations
    /\ mock' = [mock EXCEPT !.next_bool_invocations = @ + 1, !.done["next_bool"] = @ + 1]
    /\ outcome' = "returned"
    /\ result' = NoValue
    /\ UNCHANGED <<native, pc, samp, dresult, task, tally, observed, completed,
                   prob, genVars>>

\* a limited draw is called: next_lim_u16, next_lim_u32, next_lim_u64,
\* next_lim_u128 or next_lim_usize ("next_lim_t"), or the generic next_lim
AllocLimCall ==
    /\ pc = "idle"
    /\ Total < MaxOps
    /\ \E op \in {"next_lim_t", "next_lim"}, t \in Types :
        \E lim \in LimitsOf(t) :
            call' = [NoCall EXCEPT !.op = op, !.t = t, !.hi = lim]
    /\ pc' = "delegate"
    /\ words' = <<>>
    /\ observed' = <<>>
    /\ outcome' = "none"
    /\ result' = NoValue
    /\ samp' = NoSamp
    /\ UNCHANGED <<native, invocations, dresult, task, tally, completed, mock,
                   probVars, genVars>>

\* next_lim_u128 runs its delegate on the surrogate, which shows it the
\* state and hands it the widened limit: |_, lim| lim / 2 returns at once,
\* the default delegate runs a pass of Rand::next_lim_u128, the first or a
\* later one of its rejection loop
AllocLimDelegate ==
    /\ pc \in {"delegate", "loop"}
    /\ LET lim == Widen(call.hi)
           how == IF Overrides(RouteType(call.t)) THEN mock.next_lim_u128_delegate
                  ELSE "default"
       IN  /\ observed' = <<mock.next_lim_u128_invocations, lim>>
           /\ IF how = "half"
              THEN /\ words' = <<>>
                   /\ samp' = [t |-> "u128", lim |-> lim, cutoff |-> 0]
                   /\ result' = lim \div 2
                   /\ pc' = "increment"
                   /\ UNCHANGED invocations
              ELSE \E a \in NativeWords, b \in SecondWords :
                     LET r == IF pc = "delegate" THEN RandNextLimU128(native, lim, a, b)
                              ELSE IF samp.t = "u128"
                              THEN NextLimU128Pass(samp.lim, samp.cutoff,
                                                   Word(native, "u128", a, b))
                              ELSE NextLimAgain(samp.t, samp.lim, samp.cutoff,
                                                Word(native, samp.t, a, b))
                         k == FirstDraws(native, r)
                     IN  /\ (k < 2 => b = 0)
                         /\ invocations' = Counted(invocations + k)
                         /\ words' = SubSeq(<<a, b>>, 1, k)
                         /\ samp' = [t |-> r.t, lim |-> r.lim, cutoff |-> r.cutoff]
                         /\ IF r.st = "ret"
                            THEN pc' = "increment" /\ result' = r.val
                            ELSE pc' = "loop" /\ result' = NoValue
    /\ UNCHANGED <<native, call, outcome, dresult, task, tally, completed, mock,
                   probVars, genVars>>

\* the delegate has returned: next_lim_u128 increments
\* next_lim_u128_invocations and returns, and the caller narrows the result
AllocLimIncrement ==
    /\ pc = "increment"
    /\ mock' = [mock EXCEPT !.next_lim_u128_invocations =
                                IF Overrides(RouteType(call.t)) THEN @ + 1 ELSE @,
                            !.done["next_lim_u128"] = @ + 1]
    /\ result' = Narrow(call.t, result)
    /\ outcome' = "returned"
    /\ pc' = "idle"
    /\ UNCHANGED <<native, invocations, call, samp, words, dresult, task, tally,
                   observed, completed, probVars, genVars>>

NextAlloc ==
    \/ AllocNextU64
    \/ AllocNextBool
    \/ AllocLimCall
    \/ AllocLimDelegate
    \/ AllocLimIncrement

SpecAlloc == InitAlloc /\ [][NextAlloc]_vars

----------------------------------------------------------------------------
(* Tallies: one pass of a sampler applied to every word of its type *)

\* the values whose preimages are counted under the limit lim
Values(lim) ==
    { v \in (0..(2 * Near)) \cup Around(lim \div 2) \cup Around(lim - 1) :
        v >= 0 /\ v < lim }

\* a task is a sampler pass and a limit: every limit of u16, u32 and u64, in
\* the first pass and in a later one, and the sampled limits of u128
Tasks ==
    UNION { { [t |-> t, lim |-> lim, first |-> f] :
                lim \in 1..MAX(t), f \in BOOLEAN } :
            t \in {"u16", "u32", "u64"} }
    \cup
    { [t |-> "u128", lim |-> lim, first |-> TRUE] :
        lim \in { l \in Edge("u128") : l > MAX("u64") } }

\* the pass of task k over the word x: the first pass or a later pass of the
\* multiply-reject sampler, or a pass of the u128 loop
Pass(k, cut, x) ==
    IF k.t = "u128" THEN NextLimU128Pass(k.lim, cut, x)
    ELSE IF k.first THEN NextLimFirst(k.t, k.lim, x)
    ELSE NextLimAgain(k.t, k.lim, cut, x)

\* the cutoff the sampler of task k has computed when the pass begins: none
\* before the first pass of a multiply-reject sampler
CutoffOf(k) ==
    IF k.t = "u128" THEN cutoff_u128(k.lim)
    ELSE IF k.first THEN 0
    ELSE Threshold(k.t, k.lim)

\* what the pass of the task makes of the word x: the value it returns, or
\* NoValue where it rejects the word
Returned(x) ==
    LET p == Pass(task, samp.cutoff, x)
    IN  IF p.st = "ret" THEN p.val ELSE NoValue

InitCount ==
    /\ native = "rand64"
    /\ invocations = 0
    /\ pc = "count"
    /\ call = NoCall
    /\ samp = NoSamp
    /\ words = <<>>
    /\ outcome = "none"
    /\ result = NoValue
    /\ dresult = ZERO
    /\ task \in Tasks
    /\ tally = NoTally
    /\ ProbIdle /\ MockIdle /\ GenIdle

\* the sampler up to the pass: its cutoff
Prepare ==
    /\ pc = "count"
    /\ samp' = [t |-> task.t, lim |-> task.lim, cutoff |-> CutoffOf(task)]
    /\ pc' = "ready"
    /\ UNCHANGED <<native, invocations, call, words, outcome, result, dresult,
                   task, tally, probVars, mockVars, genVars>>

\* apply the pass to every word of the type and count, for each sampled value
\* v, the words that return v, and the words that are rejected
Tally ==
    /\ pc = "ready"
    /\ tally' = [hits |-> [v \in Values(task.lim) |->
                            Cardinality({ x \in 0..MAX(task.t) : Returned(x) = v })],
                 rejected |-> Cardinality({ x \in 0..MAX(task.t) : Returned(x) = NoValue })]
    /\ pc' = "counted"
    /\ UNCHANGED <<native, invocations, call, samp, words, outcome, result, dresult,
                   task, probVars, mockVars, genVars>>

NextCount ==
    \/ Prepare
    \/ Tally

SpecCount == InitCount /\ [][NextCount]_vars

----------------------------------------------------------------------------
(* Properties *)

\* the call has ended, by returning or by panicking
Ended(op) == pc = "idle" /\ call.op = op

\* the call has ended without a single draw
NoDraw == invocations = 0 /\ words = <<>>

\* C1: whenever next_lim(lim) with lim # 0 returns, at any width and in
\* either revision, its result r satisfies 0 <= r < lim.
C1_LimBelowLimit ==
    (Ended("next_lim") /\ call.hi # 0 /\ outcome = "returned")
        => (0 <= result /\ result < call.hi)

\* a u128 next_lim above u64::MAX that rejected a word and then returned lim - 1
C1_Witness ==
    /\ Ended("next_lim") /\ outcome = "returned"
    /\ call.t = "u128" /\ call.hi > MAX("u64")
    /\ invocations > Len(words)
    /\ result = call.hi - 1

\* C2: for the multiply-reject sampler of u16, u32, u64 and every nonzero
\* limit, the number of words of the type that are accepted and yield v is
\* floor(2^W / limit), the same for every v below the limit, in the first
\* pass as in the later ones.
C2_UniformCounts ==
    (pc = "counted" /\ task.t \in {"u16", "u32", "u64"})
        => \A v \in Values(task.lim) : tally.hits[v] = (2 ^ BITS(task.t)) \div task.lim

\* a later pass at u64 whose limit rejects words, tallied for v = lim - 1
C2_Witness ==
    /\ pc = "counted" /\ task.t = "u64" /\ ~task.first
    /\ tally.rejected > 0 /\ tally.hits[task.lim - 1] > 1

\* C3: for the u128 sampler with limit > u64::MAX, cutoff + 1 is a multiple
\* of the limit, every v below the limit is produced by exactly
\* (cutoff + 1) / limit accepted words, and the words above the cutoff are
\* the rejected ones.
C3_CutoffCounts ==
    (pc = "counted" /\ task.t = "u128")
        => LET c == samp.cutoff
           IN  /\ (c + 1) % task.lim = 0
               /\ \A v \in Values(task.lim) : tally.hits[v] = (c + 1) \div task.lim
               /\ tally.rejected = MAX("u128") - c

\* a u128 limit that rejects words, tallied for v = lim - 1
C3_Witness ==
    /\ pc = "counted" /\ task.t = "u128" /\ task.lim > MAX("u64")
    /\ tally.rejected > 0 /\ tally.hits[task.lim - 1] > 1

\* C4: next_lim(0) fails with "zero limit" at every width, never returns a
\* value and draws no word.
C4_ZeroLimitFails ==
    (call.op = "next_lim" /\ call.hi = 0 /\ pc # "call")
        => (pc = "idle" /\ outcome = "zero limit" /\ NoDraw)

\* C5: whenever next_range(low..high) with low < high ends, over integers
\* as over Durations, it has returned a d with low <= d < high, and the
\* addition of the offset has not overflowed.
C5_RangeWithinBounds ==
    /\ (Ended("next_range") /\ call.lo < call.hi)
           => (outcome = "returned" /\ call.lo <= result /\ result < call.hi)
    /\ (Ended("next_range_duration") /\ DurLess(call.dlo, call.dhi))
           => /\ outcome = "returned"
              /\ ~DurLess(dresult, call.dlo)
              /\ DurLess(dresult, call.dhi)

\* a Duration range whose draw carried nanoseconds into the seconds
C5_Witness ==
    /\ Ended("next_range_duration") /\ outcome = "returned"
    /\ DurLess(call.dlo, dresult)
    /\ dresult.nanos < call.dlo.nanos

C8_EmptyDurationFails ==
    (call.op = "next_range_duration" /\ ~DurLess(call.dlo, call.dhi) /\ pc # "call")
        => (pc = "idle" /\ outcome = "empty range" /\ NoDraw)

\* ZERO..ZERO has failed
C8_Witness ==
    /\ Ended("next_range_duration")
    /\ call.dlo = ZERO /\ call.dhi = ZERO
    /\ outcome = "empty range"

\* C9: next_u128 of a 64-bit-native source takes two native draws a then b
\* and returns a * 2^64 + b, the first draw in the high-order half.
C9_SpliceU128 ==
    (Ended("word") /\ call.t = "u128" /\ native = "rand64")
        => /\ Len(words) = 2
           /\ invocations = 2
           /\ result = words[1] * 2 ^ BITS("u64") + words[2]

\* the draws 1 then 2
C9_Witness ==
    /\ Ended("word") /\ call.t = "u128" /\ native = "rand64"
    /\ words = <<1, 2>>
    /\ result = 2 ^ BITS("u64") + 2

\* C10: a word narrower than the native one is the low-order bits of exactly
\* one native draw: u16 and u32 on a 64-bit-native source, u16, u32 and u64
\* on a 128-bit-native one.
C10_Truncation ==
    (Ended("word") /\ call.t \in {"u16", "u32", "u64"}
                   /\ BITS(call.t) < BITS(NativeType(native)))
        => /\ Len(words) = 1
           /\ invocations = 1
           /\ result < 2 ^ BITS(call.t)
           /\ (words[1] - result) % (2 ^ BITS(call.t)) = 0

\* a u64 cut out of a 128-bit draw with high-order bits set
C10_Witness ==
    /\ Ended("word") /\ call.t = "u64" /\ native = "rand128"
    /\ words[1] > MAX("u64")
    /\ result = MAX("u64")

C14_ProbabilityNew ==
    /\ Ended("new") =>
          /\ (outcome = "returned") <=> (F64Ge(call.p, F0) /\ F64Le(call.p, F1))
          /\ (outcome = "returned") => (prob.ok /\ F64Eq(FromProbability(prob), call.p))
          /\ (call.p.cls # "nan" /\ Key(call.p) < 0) => outcome = "cannot be less than 0"
          /\ (call.p.cls # "nan" /\ Key(call.p) > Unit) => outcome = "cannot be greater than 1"
    /\ Ended("new_unchecked") =>
          (outcome = "returned" /\ prob.ok /\ FromProbability(prob) = call.p)

\* Probability::new(1.0 + EPSILON) has failed on the upper bound
C14_Witness ==
    /\ Ended("new") /\ call.p = Fin(FALSE, Unit + 1)
    /\ outcome = "cannot be greater than 1"

\* C20: from_nanos(d.as_nanos()) = d for every Duration d, from ZERO up to
\* Duration::MAX.
C20_FromNanosInverse ==
    Ended("from_nanos") => (outcome = "returned" /\ dresult = call.dlo)

\* the round trip of Duration::MAX
C20_Witness ==
    /\ Ended("from_nanos")
    /\ call.dlo = [secs |-> MAX("u64"), nanos |-> NANOS_PER_SEC - 1]
    /\ result = MAX("u64") * NANOS_PER_SEC + NANOS_PER_SEC - 1
    /\ dresult = call.dlo

\* x is a power of two
IsPowerOfTwo(x) == \E k \in 0..BITS("u128") : x = 2 ^ k

\* C17: next_lim with a limit that is a power of two (1 included) never
\* rejects: whatever word is drawn it returns after exactly one word of the
\* sampling width, and for the limit 1 the result is 0.
C17_PowerOfTwoNeverRejects ==
    (call.op = "next_lim" /\ IsPowerOfTwo(call.hi) /\ pc # "call")
        => /\ pc = "idle" /\ outcome = "returned"
           /\ invocations = Draws(native, samp.t)
           /\ Len(words) = Draws(native, samp.t)
           /\ call.hi = 1 => result = 0

\* a u128 next_lim with the limit 2^127 has returned after one spliced word
\* whose halves are u64::MAX
C17_Witness ==
    /\ Ended("next_lim") /\ outcome = "returned"
    /\ call.t = "u128" /\ call.hi = 2 ^ (BITS("u128") - 1)
    /\ native = "rand64" /\ words = <<MAX("u64"), MAX("u64")>>
    /\ invocations = 2

\* C18: for every nonzero limit, the words of the sampling width that a
\* pass rejects number exactly 2^W mod limit, fewer than half of the 2^W
\* words, in the multiply-reject passes and in the u128 cutoff pass.
C18_RejectedCount ==
    (pc = "counted")
        => /\ tally.rejected = (2 ^ BITS(task.t)) % task.lim
           /\ 2 * tally.rejected < 2 ^ BITS(task.t)

\* the first u64 pass under the limit 2^63 + 1, which rejects 2^63 - 1 words
C18_Witness ==
    /\ pc = "counted" /\ task.t = "u64" /\ task.first
    /\ task.lim = 2 ^ (BITS("u64") - 1) + 1
    /\ tally.rejected = 2 ^ (BITS("u64") - 1) - 1

\* C16: on a fair source, every next_lim with a nonzero limit eventually
\* returns: the rejection loop does not spin forever.
C16_EventuallyReturns ==
    (pc = "call" /\ call.hi # 0) ~> (pc = "idle" /\ outcome = "returned")

\* a u64 next_lim has returned after rejecting two words
C16_Witness ==
    /\ Ended("next_lim") /\ outcome = "returned"
    /\ call.t = "u64" /\ native = "rand64"
    /\ invocations = 3 /\ Len(words) = 1

\* C11: between calls, a 64-bit-native mock has counted one invocation for
\* each next_u16, next_u32, next_u64 and next_usize call and two for each
\* next_u128 call; a 128-bit-native mock has counted one for every call.
C11_InvocationAccounting ==
    (pc = "idle" /\ completed # <<>>)
        => invocations =
              completed["u16"] + completed["u32"] + completed["u64"] + completed["usize"]
              + (IF native = "rand64" THEN 2 ELSE 1) * completed["u128"]

\* a 64-bit-native mock after one next_u16, one next_u32 and one next_u128
C11_Witness ==
    /\ pc = "idle" /\ native = "rand64"
    /\ completed = [t \in Types |-> IF t \in {"u16", "u32", "u128"} THEN 1 ELSE 0]
    /\ invocations = 4

\* only next_u64 has been called on the mock so far
OnlyNextU64 ==
    /\ call.op = "word" /\ call.t = "u64"
    /\ \A t \in Types \ {"u64"} : completed[t] = 0

\* C12: on a 64-bit-native mock on which only next_u64 is called, the
\* delegate of the k-th call is shown the counter k - 1, the counter is
\* still k - 1 when the delegate has returned, and it is k once the call
\* has returned.
C12_IncrementAfterDelegate ==
    (completed # <<>> /\ native = "rand64" /\ OnlyNextU64)
        => /\ pc = "increment" =>
                (observed = <<completed["u64"]>> /\ invocations = completed["u64"])
           /\ pc = "idle" =>
                (observed = <<completed["u64"] - 1>> /\ invocations = completed["u64"])

\* the delegate of the second next_u64 has returned and was shown 1
C12_Witness ==
    /\ completed # <<>> /\ native = "rand64" /\ OnlyNextU64
    /\ pc = "increment"
    /\ completed["u64"] = 1 /\ observed = <<1>> /\ invocations = 1

\* the two instances were made in the same way
SameSeed == rng[1].how = rng[2].how /\ rng[1].seed = rng[2].seed

C19_CounterWraps ==
    (rng # <<>>)
        => \A i \in 1..2 : \A n \in 1..Len(log[i]) :
              (rng[i].kind = "Counter" /\ log[i][n].op = "u64")
                  => log[i][n].out =
                        ((IF rng[i].how = "seed" THEN rng[i].seed ELSE 0) + log[i][n].k)
                            % (2 ^ BITS("u64"))

\* Counter::seed(u64::MAX) has returned u64::MAX and then 0
C19_Witness ==
    /\ rng # <<>> /\ rng[1].kind = "Counter"
    /\ rng[1].how = "seed" /\ rng[1].seed = MAX("u64")
    /\ Len(log[1]) = 2
    /\ log[1][1].op = "u64" /\ log[1][1].out = MAX("u64")
    /\ log[1][2].op = "u64" /\ log[1][2].out = 0

\* the word of the sampling width that the latest pass of the call drew
Drawn == Word(native, samp.t, words[1], 0)

\* C21: in a next_lim that samples at u16, u32 or u64 with a nonzero limit,
\* with threshold = (2^W - limit) mod limit: the product x * limit of the
\* drawn word fits the 2W-bit accumulator; a word left in the rejection loop
\* has its low half (x * limit) mod 2^W below the threshold; and the call
\* returns (x * limit) >> W of a word whose low half is at or above the
\* threshold, on the first draw as on the later ones.
C21_ReferenceSampler ==
    (call.op = "next_lim" /\ pc # "call" /\ samp.lim # 0
                          /\ samp.t \in {"u16", "u32", "u64"})
        => LET W == BITS(samp.t)
               threshold == (2 ^ W - samp.lim) % samp.lim
               product == Drawn * samp.lim
               low == product % (2 ^ W)
           IN  /\ product < 2 ^ (2 * W)
               /\ pc = "loop" => low < threshold
               /\ pc = "idle" =>
                    /\ outcome = "returned"
                    /\ low >= threshold
                    /\ result = product \div (2 ^ W)

\* a u64 next_lim has rejected its first word and returned limit - 1 for the
\* second, whose low half is below the limit
C21_Witness ==
    /\ Ended("next_lim") /\ outcome = "returned"
    /\ call.t = "u64" /\ native = "rand64"
    /\ invocations = 2 /\ Len(words) = 1
    /\ (Drawn * samp.lim) % (2 ^ BITS("u64")) < samp.lim
    /\ result = call.hi - 1

\* the next-narrower width
Narrower(t) ==
    CASE t = "u32" -> "u16"
      [] t = "u64" -> "u32"
      [] t = "u128" -> "u64"

\* what a pass of the sampler of the narrower width nt makes of the native
\* draws of the latest pass, under the limit lim
NarrowPass(nt, lim) ==
    NextLimAgain(nt, lim, Threshold(nt, lim),
                 Word(native, nt, words[1], IF Len(words) > 1 THEN words[2] ELSE 0))

\* the latest pass of the call drew what the sampler of width nt draws,
\* rejected what it rejects and returned what it returns
SamplesAs(nt) ==
    /\ Len(words) = Draws(native, nt)
    /\ (pc = "loop") <=> (NarrowPass(nt, call.hi).st = "loop")
    /\ pc = "idle" => (outcome = "returned" /\ result = NarrowPass(nt, call.hi).val)

\* C22 as stated: at u32, u64 and u128, next_lim with a nonzero limit that
\* fits the next-narrower width consumes the source words and returns the
\* result of the narrower width's next_lim under that limit.
C22_DelegatesToNarrower ==
    (call.op = "next_lim" /\ pc # "call" /\ call.t \in {"u32", "u64", "u128"}
                          /\ call.hi # 0 /\ call.hi <= MAX(Narrower(call.t)))
        => SamplesAs(Narrower(call.t))

\* C22 as amended: at u128, next_lim with a nonzero limit that fits u64
\* consumes the source words and returns the result of the u64 next_lim
\* under that limit.
C22_U128DelegatesToU64 ==
    (call.op = "next_lim" /\ pc # "call" /\ call.t = "u128"
                          /\ call.hi # 0 /\ call.hi <= MAX("u64"))
        => SamplesAs("u64")

\* a u128 next_lim on a 64-bit source, under a limit that fits u64, has
\* rejected one word and returned a nonzero result for the second
C22_Witness ==
    /\ Ended("next_lim") /\ outcome = "returned"
    /\ call.t = "u128" /\ call.hi <= MAX("u64") /\ native = "rand64"
    /\ invocations = 2 /\ Len(words) = 1
    /\ result > 0

\* C23: for every limit >= 1, cutoff_u128(limit) is computed without
\* overflow and equals (2^128 - 1) - ((2^128 - limit) mod limit); cutoff + 1
\* is a multiple of the limit and (2^128 - 1) - cutoff < limit; the cutoff
\* of 1 and of 2 is u128::MAX and that of 3 is u128::MAX - 1.
C23_CutoffU128 ==
    (Ended("cutoff_u128") /\ call.hi >= 1)
        => LET W == BITS("u128")
               lim == call.hi
           IN  /\ outcome = "returned"
               /\ result = (2 ^ W - 1) - ((2 ^ W - lim) % lim)
               /\ (result + 1) % lim = 0
               /\ (2 ^ W - 1) - result < lim
               /\ lim \in {1, 2} => result = MAX("u128")
               /\ lim = 3 => result = MAX("u128") - 1

\* cutoff_u128(3) has returned u128::MAX - 1
C23_Witness ==
    /\ Ended("cutoff_u128") /\ call.hi = 3
    /\ outcome = "returned" /\ result = MAX("u128") - 1

\* C24: integer next_range(low..high) with low > high never gets as far as
\* high - low: it ends where the empty range ends, having handed no span to
\* next_lim and drawn no word; the root revision returns low, the tinyrand
\* revision fails with "empty range".
C24_InvertedRange ==
    (call.op = "next_range" /\ call.lo > call.hi /\ pc # "call")
        => /\ pc = "idle"
           /\ samp.lim = 0
           /\ NoDraw
           /\ IF call.rev = "root"
              THEN outcome = "returned" /\ result = call.lo
              ELSE outcome = "empty range" /\ result = NoValue

\* the root revision has returned 2 for the u128 range 2..1
C24_Witness ==
    /\ Ended("next_range") /\ call.rev = "root" /\ call.t = "u128"
    /\ call.lo = 2 /\ call.hi = 1
    /\ outcome = "returned" /\ result = 2 /\ NoDraw

\* floor(p * u64::MAX) saturated to u64, the product being that of f64, in
\* which u64::MAX is 2^64: 0 for a NaN and for a negative p
FloorSaturated(p) ==
    IF p.cls = "nan" \/ p.neg THEN 0
    ELSE IF p.cls = "inf" THEN MAX("u64")
    ELSE LET q == (p.num * 2 ^ BITS("u64")) \div Unit
         IN  IF q > MAX("u64") THEN MAX("u64") ELSE q

\* C25: next_bool(p) draws exactly one native word, of which w is the u64
\* word, and returns true iff min(w, u64::MAX - 1) < cutoff, where cutoff is
\* floor(p * u64::MAX) saturated to u64; the source has advanced by exactly
\* one native draw whether it returned true or false.
C25_BoolAlgorithm ==
    Ended("next_bool")
        => /\ outcome = "returned"
           /\ Len(words) = 1
           /\ invocations = 1
           /\ LET w == As("u64", words[1])
                  clamped == IF w < MAX("u64") - 1 THEN w ELSE MAX("u64") - 1
              IN  flag <=> (clamped < FloorSaturated(call.p))

\* next_bool(0.5) has returned true on the word u64::MAX / 2, the last word
\* below the cutoff 2^63
C25_Witness ==
    /\ Ended("next_bool") /\ call.p = Fin(FALSE, Unit \div 2)
    /\ words = <<MAX("u64") \div 2>>
    /\ invocations = 1
    /\ flag

\* C26: an Xorshift or SplitMix made by seed(0) starts from the state
\* u64::MAX >> 1, and one made by seed(s) with s # 0 from the state s; a
\* Wyrand made by seed(s) starts from the state s, 0 included.  The state an
\* instance starts from is the one its first draw finds.
C26_Seeding ==
    (rng # <<>>)
        => \A i \in 1..2 :
              (rng[i].how = "seed" /\ rng[i].kind \in {"Xorshift", "SplitMix", "Wyrand"})
                  => LET start == IF rng[i].kind # "Wyrand" /\ rng[i].seed = 0
                                  THEN 2 ^ (BITS("u64") - 1) - 1
                                  ELSE rng[i].seed
                     IN  /\ rng[i].draws = 0 => rng[i].s = start
                         /\ \A n \in 1..Len(log[i]) :
                              log[i][n].k = 0 => log[i][n].pre = start

\* an Xorshift made by seed(0) has drawn its first u64 from u64::MAX >> 1,
\* next to a twin made by seed(u64::MAX) that has not drawn yet
C26_Witness ==
    /\ rng # <<>> /\ rng[1].kind = "Xorshift"
    /\ rng[1].how = "seed" /\ rng[1].seed = 0
    /\ Len(log[1]) = 1 /\ log[1][1].op = "u64"
    /\ log[1][1].pre = MAX("u64") \div 2
    /\ rng[2].how = "seed" /\ rng[2].seed = MAX("u64")
    /\ rng[2].draws = 0 /\ rng[2].s = MAX("u64")

\* C27: an Xorshift or SplitMix in the state 0 returns 0 on every draw and
\* stays in the state 0; one made by default() or by seed(s), whatever s,
\* starts from a nonzero state and is in a nonzero state after every draw.
C27_ZeroState ==
    (rng # <<>>)
        => \A i \in 1..2 :
              (rng[i].kind \in {"Xorshift", "SplitMix"})
                  => IF rng[i].how = "construct"
                     THEN /\ rng[i].s = 0
                          /\ \A n \in 1..Len(log[i]) :
                               log[i][n].out = 0 /\ log[i][n].post = 0
                     ELSE /\ rng[i].s # 0
                          /\ \A n \in 1..Len(log[i]) :
                               log[i][n].pre # 0 /\ log[i][n].post # 0

\* a SplitMix constructed in the state 0 has returned 0 for a next_u64 and
\* for a next_u128, next to a twin made by seed(0) that ran the same two
\* operations
C27_Witness ==
    /\ rng # <<>> /\ rng[1].kind = "SplitMix"
    /\ rng[1].how = "construct" /\ rng[1].s = 0 /\ rng[1].draws = 3
    /\ log[1][1].op = "u64" /\ log[1][2].op = "u128" /\ log[1][2].out = 0
    /\ rng[2].how = "seed" /\ rng[2].seed = 0
    /\ rng[2].draws = 3 /\ rng[2].s # 0

\* the call samples with the multiply-reject sampler: at u16, u32, u64 and
\* usize, and at u128 under a limit that fits u64
MultiplyReject(c) == c.t \in {"u16", "u32", "u64", "usize"} \/ c.hi <= MAX("u64")

\* C28: under a limit that is not a power of two, the multiply-reject
\* sampler rejects the word 0, whose low half 0 is below the threshold
\* 2^W mod limit > 0; so a next_lim on a source that yields 0 forever is
\* still in its rejection loop after every draw and never returns.
C28_ZeroNeverReturns ==
    (call.hi # 0 /\ ~IsPowerOfTwo(call.hi) /\ MultiplyReject(call) /\ pc # "call")
        => /\ pc = "loop" /\ outcome = "none"
           /\ Drawn = 0
           /\ samp.cutoff = (2 ^ BITS(samp.t)) % samp.lim
           /\ (Drawn * samp.lim) % (2 ^ BITS(samp.t)) < samp.cutoff

\* next_lim(3u64) on a 128-bit-native mock is in its loop after
\* MaxInvocations draws of 0
C28_Witness ==
    /\ pc = "loop" /\ call.t = "u64" /\ call.hi = 3 /\ native = "rand128"
    /\ words = <<0>>
    /\ invocations = MaxInvocations

\* a session on a tinyrand-alloc mock is between two calls
Between == mock.kind # "none" /\ pc = "idle"

\* C29: between the calls of a session of next_u64, next_bool and limited
\* draws on a tinyrand-alloc mock, Mock or AdvMock, the accessor
\* next_lim_u128_invocations() returns the number of next_lim_u128
\* invocations completed so far.
C29_LimAccessor ==
    Between => next_lim_u128_invocations(mock.kind, mock) = mock.done["next_lim_u128"]

\* a limited draw of the session has returned
LimReturned == Between /\ call.op \in {"next_lim_t", "next_lim"} /\ outcome = "returned"

====
